---- MODULE Spec2Model ----
(***************************************************************************)
(* Grid36 tile index of the coordinator app                                *)
(* (src/utils/coordinateConversion.ts).                                    *)
(*                                                                         *)
(* Numbers.  Planar coordinates are floating-point metres in the code.     *)
(* Here a finite planar coordinate is an integer count of sub-units,       *)
(* SubUnits to the metre, so that the cell centre (+0.5 m) and a rounding  *)
(* error below half a metre are both representable.  A coordinate that     *)
(* may be non-finite is a record: Fin(v), NaN, PosInf or NegInf.           *)
(* Cell indices, depths and tile sizes are plain integers as in the code.  *)
(*                                                                         *)
(* Strings.  A tile ID is a sequence of one-character strings.             *)
(*                                                                         *)
(* Projection.  proj4 is an external library.  A geographic point is       *)
(* represented by the planar point it projects to; the inverse projection  *)
(* returns a geographic point whose forward projection is off by a         *)
(* rounding error of at most MaxRoundErr sub-units per axis, or a          *)
(* non-finite point.  The outcome of the library is the parameter e.       *)
(***************************************************************************)
EXTENDS Integers, Sequences, FiniteSets, TLC

\* ------------------------------------------------------------------ bounds
\* Largest rounding error of a projection round trip, in sub-units.
MaxRoundErr == 1
\* Longest raw string handed to the decoder or to adjustHashDepth.
MaxRawLen == 10
\* Sample cells lie up to MaxOff steps from the centre cell at each scale.
MaxOff == 1
\* Calls the caller makes on the ID that its first call returned.
MaxAdjust == 1
\* Number of useStorage instances (screens) mounted at once.
MaxHooks == 2
\* Number of distinct queries that the screens save.
MaxQueries == 2
\* Number of storage operations that the screens start.
MaxOps == 3
\* Location updates and level presses on the converter screen.
MaxEvents == 3
\* Calls of performConversion and handleLevelChange that may stand at an
\* await when the next location update or press arrives.
MaxPending == 1

\* Sub-units per metre: the rounding error stays below half a metre.
SubUnits == 2 * (MaxRoundErr + 1)
HalfUnit == SubUnits \div 2

\* --------------------------------------------------------------- constants
MARCO_ZERO_X == 5646767
MARCO_ZERO_Y == 9567023
X_MIN_AREA == 607919
Y_MIN_AREA == 4528175
X_MAX_AREA == 10685615
Y_MAX_AREA == 14605871
BASE == 6
MAX_DEPTH == 9
\* 1e-9 of lines 283-284: the smallest step of the fixed-point coordinates.
EPS == 1

GLYPH_GRID ==
  << <<"Z","G","H","I","J","K">>,
     <<"Y","F","4","5","6","L">>,
     <<"X","E","3","0","7","M">>,
     <<"W","D","2","1","8","N">>,
     <<"V","C","B","A","9","O">>,
     <<"U","T","S","R","Q","P">> >>

\* GLYPH_GRID[row][col] with the code's 0-based row and col.
Glyph(row, col) == GLYPH_GRID[row + 1][col + 1]

Alphabet == { Glyph(r, c) : r \in 0..5, c \in 0..5 }

\* Mutant of GRID36_POS: the position is stored as [row, col].
GRID36_POS_RowCol ==
  [ ch \in Alphabet |->
      LET cells == { rc \in (0..5) \X (0..5) : Glyph(rc[1], rc[2]) = ch }
          last  == CHOOSE rc \in cells :
                     \A o \in cells : o[1] * 6 + o[2] <= rc[1] * 6 + rc[2]
      IN  << last[1], last[2] >> ]

\* The loop of lines 164-168 assigns in row-major order: a symbol that
\* occurred twice would keep its last position.
GRID36_POS ==
  [ ch \in Alphabet |->
      LET cells == { rc \in (0..5) \X (0..5) : Glyph(rc[1], rc[2]) = ch }
          last  == CHOOSE rc \in cells :
                     \A o \in cells : o[1] * 6 + o[2] <= rc[1] * 6 + rc[2]
      IN  << last[2], last[1] >> ]

POW6 == << 1, 6, 36, 216, 1296, 7776, 46656, 279936, 1679616, 10077696 >>
\* POW6[k] with the code's 0-based k.
Pow6(k) == POW6[k + 1]

N == X_MAX_AREA - X_MIN_AREA

\* Metres to sub-units.
M(x) == x * SubUnits

\* ---------------------------------------------------- floating-point values
Fin(v) == [k |-> "fin", v |-> v]
NaN    == [k |-> "nan", v |-> 0]
PosInf == [k |-> "inf", v |-> 1]
NegInf == [k |-> "inf", v |-> -1]

IsFin(a) == a.k = "fin"

\* a < b and a <= b of IEEE numbers: false when either is NaN.
Less(a, b) ==
  /\ a.k # "nan" /\ b.k # "nan"
  /\ \/ a.k = "fin" /\ b.k = "fin" /\ a.v < b.v
     \/ a = NegInf /\ b # NegInf
     \/ b = PosInf /\ a # PosInf
LessEq(a, b) == a.k # "nan" /\ b.k # "nan" /\ (a = b \/ Less(a, b))

MathMin(a, b) ==
  IF a.k = "nan" \/ b.k = "nan" THEN NaN ELSE IF Less(b, a) THEN b ELSE a
MathMax(a, b) ==
  IF a.k = "nan" \/ b.k = "nan" THEN NaN ELSE IF Less(a, b) THEN b ELSE a

\* Math.floor(a - lo) for a finite lo given in sub-units: whole metres.
FloorDiff(a, lo) ==
  IF a.k = "fin" THEN Fin((a.v - lo) \div SubUnits) ELSE a

\* ---------------------------------------------------------------- results
Error(msg) == [ok |-> FALSE, err |-> msg]

\* F applied to the value of v: v is evaluated once, as an assignment to a
\* const evaluates its right-hand side once.
Bind(v, F(_)) == CHOOSE r \in { F(x) : x \in { v } } : TRUE


\* -------------------------------------------------------------- projection
\* Outcomes of the projection library for one call of the core: no
\* rounding error, the largest one on both axes in the same or in opposite
\* directions, or a non-finite result.
Env ==
  { [k |-> "ok", ex |-> m, ey |-> s * m] :
      m \in { -MaxRoundErr, 0, MaxRoundErr }, s \in { -1, 1 } }
  \cup { [k |-> "nan", ex |-> 0, ey |-> 0] }

Exact == [k |-> "ok", ex |-> 0, ey |-> 0]

\* Planar (easting, northing in sub-units) to geographic.
convertSIRGASToWGS84(easting, northing, e) ==
  IF e.k = "nan"
    THEN [lon |-> NaN, lat |-> NaN]
    ELSE [lon |-> Fin(easting + e.ex), lat |-> Fin(northing + e.ey)]

\* Geographic to planar.
convertWGS84ToSIRGASAlbers(geo) ==
  [easting |-> geo.lon, northing |-> geo.lat]

\* ---------------------------------------------------------------- tile size
\* Math.pow(b, n) for a whole n >= 0.
RECURSIVE Pow(_, _)
Pow(b, n) == IF n <= 0 THEN 1 ELSE b * Pow(b, n - 1)

\* The quotient a / p of the floating-point division, kept exact as whole
\* metres and a remainder over p.
Quot(a, p) == [whole |-> a \div p, rem |-> a % p, den |-> p]

\* Math.min of two quotients over the same divisor.
MinQuot(s, t) ==
  IF t.whole < s.whole \/ (t.whole = s.whole /\ t.rem < s.rem) THEN t ELSE s

\* Mutant of getTileSizeFromLevel: the extent is divided by BASE^(depth-1).
getTileSizeFromLevel_OffByOne(depth) ==
  IF depth < 1 \/ depth > MAX_DEPTH
    THEN Error("Depth must be between 1 and 9")
    ELSE [ok |-> TRUE,
          size |-> MinQuot(Quot(X_MAX_AREA - X_MIN_AREA, Pow(BASE, depth - 1)),
                           Quot(Y_MAX_AREA - Y_MIN_AREA, Pow(BASE, depth - 1)))]

getTileSizeFromLevel(depth) ==
  IF depth < 1 \/ depth > MAX_DEPTH
    THEN Error("Depth must be between 1 and 9")
    ELSE LET sx == Quot(X_MAX_AREA - X_MIN_AREA, Pow(BASE, depth))
             sy == Quot(Y_MAX_AREA - Y_MIN_AREA, Pow(BASE, depth))
         IN  [ok |-> TRUE, size |-> MinQuot(sx, sy)]

\* ------------------------------------------------------------------ decoder
\* Mutant of ijToXy: the corner of the cell, without the half cell.
ijToXy_Corner(i, j) == << M(X_MIN_AREA) + M(i), M(Y_MIN_AREA) + M(j) >>

\* Cell indices to the planar centre of the cell, in sub-units.
ijToXy(i, j) ==
  << M(X_MIN_AREA) + M(i) + HalfUnit, M(Y_MIN_AREA) + M(j) + HalfUnit >>

\* Mutant of DecodeLoop: a character that is not in GRID36_POS is skipped.
RECURSIVE DecodeLoop_SkipUnknown(_, _, _, _)
DecodeLoop_SkipUnknown(code, idx, i, j) ==
  IF idx > Len(code)
    THEN [ok |-> TRUE, i |-> i, j |-> j]
    ELSE LET ch == code[idx] IN
         IF ch \notin DOMAIN GRID36_POS
           THEN DecodeLoop_SkipUnknown(code, idx + 1, i, j)
           ELSE DecodeLoop_SkipUnknown(code, idx + 1,
                  i * 6 + GRID36_POS[ch][1], j * 6 + (5 - GRID36_POS[ch][2]))

\* The for-of loop of lines 246-255 from position idx on.
RECURSIVE DecodeLoop(_, _, _, _)
DecodeLoop(code, idx, i, j) ==
  IF idx > Len(code)
    THEN [ok |-> TRUE, i |-> i, j |-> j]
    ELSE LET ch == code[idx] IN
         IF ch \notin DOMAIN GRID36_POS
           THEN Error("simbolo invalido no grid36")
           ELSE LET col == GRID36_POS[ch][1]
                    row == GRID36_POS[ch][2]
                    dI  == col
                    dJ  == 5 - row
                IN  DecodeLoop(code, idx + 1, i * 6 + dI, j * 6 + dJ)

\* Mutant of grid36DecodeToOrigin: the length check excludes length 9.
grid36DecodeToOrigin_Below9(code) ==
  IF ~(1 <= Len(code) /\ Len(code) < 9)
    THEN Error("grid36: codigo deve ter 1..9 caracteres")
    ELSE Bind(DecodeLoop(code, 1, 0, 0), LAMBDA acc :
         IF ~acc.ok
           THEN acc
           ELSE [ok |-> TRUE, i0 |-> acc.i * Pow6(9 - Len(code)),
                 j0 |-> acc.j * Pow6(9 - Len(code)),
                 scale |-> Pow6(9 - Len(code))])

grid36DecodeToOrigin(code) ==
  IF ~(1 <= Len(code) /\ Len(code) <= 9)
    THEN Error("grid36: codigo deve ter 1..9 caracteres")
    ELSE Bind(DecodeLoop(code, 1, 0, 0), LAMBDA acc :
         IF ~acc.ok
           THEN acc
           ELSE LET depth == Len(code)
                    scale == Pow6(9 - depth)
                IN  [ok |-> TRUE, i0 |-> acc.i * scale, j0 |-> acc.j * scale,
                     scale |-> scale])

\* The literal "000000000" of line 367.
ReferenceHash == << "0", "0", "0", "0", "0", "0", "0", "0", "0" >>
\* ijOrigin of the reference record, line 376.
REF_IJ == 10077695

\* Lines 367-380: the fixed record of the reference tile.
ReferenceRecord(hash, e) ==
  LET cx == M(MARCO_ZERO_X) + HalfUnit
      cy == M(MARCO_ZERO_Y) + HalfUnit
  IN  Bind(convertSIRGASToWGS84(cx, cy, e), LAMBDA g :
      [ok |-> TRUE, hash |-> hash, depth |-> 9, tileSize |-> 1,
       ijOrigin |-> [i0 |-> REF_IJ, j0 |-> REF_IJ],
       centroid |-> [x |-> cx, y |-> cy, lon |-> g.lon, lat |-> g.lat],
       bounds |-> [xmin |-> M(MARCO_ZERO_X), ymin |-> M(MARCO_ZERO_Y),
                   xmax |-> M(MARCO_ZERO_X + 1), ymax |-> M(MARCO_ZERO_Y + 1)]])

\* Lines 383-401: the record of the tile with origin o.i0, o.j0 and side
\* o.scale.
TileRecord(hash, o, e) ==
  LET side == o.scale
      x0   == M(X_MIN_AREA) + M(o.i0)
      y0   == M(Y_MIN_AREA) + M(o.j0)
      x1   == x0 + M(side)
      y1   == y0 + M(side)
  IN  Bind(ijToXy(o.i0 + side \div 2, o.j0 + side \div 2), LAMBDA c :
      Bind(convertSIRGASToWGS84(c[1], c[2], e), LAMBDA g :
      [ok |-> TRUE, hash |-> hash, depth |-> Len(hash), tileSize |-> side,
       ijOrigin |-> [i0 |-> o.i0, j0 |-> o.j0],
       centroid |-> [x |-> c[1], y |-> c[2], lon |-> g.lon, lat |-> g.lat],
       bounds |-> [xmin |-> x0, ymin |-> y0, xmax |-> x1, ymax |-> y1]]))

\* Lines 382-401: the record computed from the symbols of the hash.
DecodeGeneral(hash, e) ==
  Bind(grid36DecodeToOrigin(hash), LAMBDA o :
       IF ~o.ok THEN o ELSE TileRecord(hash, o, e))

\* Mutant of decodeFromGrid36: no special case for the reference tile.
decodeFromGrid36_NoReference(hash, e) == DecodeGeneral(hash, e)

decodeFromGrid36(hash, e) ==
  IF hash = ReferenceHash THEN ReferenceRecord(hash, e) ELSE DecodeGeneral(hash, e)

\* ------------------------------------------------------------------ encoder
\* Mutant of EncodeLoop: the digits are taken from position depth-1 down to
\* 0, as the loop of grid36EncodeIj takes them.
RECURSIVE EncodeLoop_LowDigits(_, _, _, _)
EncodeLoop_LowDigits(k, rem_i, rem_j, depth) ==
  IF ~(k > 8 - depth)
    THEN << >>
    ELSE LET pow6k == Pow6(k - (9 - depth))
             d_i   == rem_i \div pow6k
             d_j   == rem_j \div pow6k
             row   == 5 - (IF d_j < 5 THEN d_j ELSE 5)
             col   == IF d_i < 5 THEN d_i ELSE 5
         IN  << Glyph(row, col) >>
               \o EncodeLoop_LowDigits(k - 1, rem_i % pow6k, rem_j % pow6k, depth)

\* Mutant of EncodeLoop: the loop stops one digit early (k > 9 - depth).
RECURSIVE EncodeLoop_OneShort(_, _, _, _)
EncodeLoop_OneShort(k, rem_i, rem_j, depth) ==
  IF ~(k > 9 - depth)
    THEN << >>
    ELSE LET pow6k == Pow6(k)
             d_i   == rem_i \div pow6k
             d_j   == rem_j \div pow6k
             row   == 5 - (IF d_j < 5 THEN d_j ELSE 5)
             col   == IF d_i < 5 THEN d_i ELSE 5
         IN  << Glyph(row, col) >>
               \o EncodeLoop_OneShort(k - 1, rem_i % pow6k, rem_j % pow6k, depth)

\* The loop of lines 297-310 from digit position k down.
RECURSIVE EncodeLoop(_, _, _, _)
EncodeLoop(k, rem_i, rem_j, depth) ==
  IF ~(k > 8 - depth)
    THEN << >>
    ELSE LET pow6k == Pow6(k)
             d_i   == rem_i \div pow6k
             d_j   == rem_j \div pow6k
             maxI  == IF d_i > 0 THEN d_i ELSE 0
             maxJ  == IF d_j > 0 THEN d_j ELSE 0
             row   == 5 - (IF maxJ < 5 THEN maxJ ELSE 5)
             col   == IF maxI < 5 THEN maxI ELSE 5
         IN  << Glyph(row, col) >>
               \o EncodeLoop(k - 1, rem_i % pow6k, rem_j % pow6k, depth)

\* Mutant of ClampIndex: the upper clamp is hi itself, without the 1e-9.
ClampIndex_NoEps(lo, hi, x) ==
  Bind(MathMin(Fin(M(hi)), x), LAMBDA upper :
  Bind(MathMax(Fin(M(lo)), upper), LAMBDA clamped :
  FloorDiff(clamped, M(lo))))

\* Lines 283-284: the clamped, floored cell index on one axis.
ClampIndex(lo, hi, x) ==
  Bind(MathMin(Fin(M(hi) - EPS), x), LAMBDA upper :
  Bind(MathMax(Fin(M(lo)), upper), LAMBDA clamped :
  FloorDiff(clamped, M(lo))))

\* Mutant of ForaArea: the upper boundary counts as inside.
ForaArea_Inclusive(x, y) ==
  ~( /\ LessEq(Fin(M(X_MIN_AREA)), x) /\ LessEq(x, Fin(M(X_MAX_AREA)))
     /\ LessEq(Fin(M(Y_MIN_AREA)), y) /\ LessEq(y, Fin(M(Y_MAX_AREA))) )

\* Line 281.
ForaArea(x, y) ==
  ~( /\ LessEq(Fin(M(X_MIN_AREA)), x) /\ Less(x, Fin(M(X_MAX_AREA)))
     /\ LessEq(Fin(M(Y_MIN_AREA)), y) /\ Less(y, Fin(M(Y_MAX_AREA))) )

\* Lines 292-324: the ID of cell (i, j) and the record returned with it.
EncodeIndex(i, j, foraArea, depth, e) ==
  Bind(EncodeLoop(8, i, j, depth), LAMBDA finalHash :
  Bind(decodeFromGrid36(finalHash, e), LAMBDA decoded :
  IF ~decoded.ok
    THEN decoded
    ELSE [ok |-> TRUE, hash |-> finalHash, depth |-> depth,
          tileSize |-> decoded.tileSize,
          ijOrigin |-> decoded.ijOrigin,
          centroid |-> decoded.centroid,
          foraArea |-> foraArea]))

\* Mutant of encodeToGrid36: a depth outside 1..9 is clamped into it.
encodeToGrid36_ClampDepth(geo, depth, e) ==
  Bind(IF depth < 1 THEN 1 ELSE IF depth > 9 THEN 9 ELSE depth, LAMBDA d :
  Bind(convertWGS84ToSIRGASAlbers(geo), LAMBDA p :
  Bind(ClampIndex(X_MIN_AREA, X_MAX_AREA, p.easting), LAMBDA i :
  Bind(ClampIndex(Y_MIN_AREA, Y_MAX_AREA, p.northing), LAMBDA j :
  IF ~( /\ IsFin(i) /\ i.v >= 0 /\ i.v < N
        /\ IsFin(j) /\ j.v >= 0 /\ j.v < N )
    THEN Error("i/j fora do dominio")
    ELSE EncodeIndex(i.v, j.v, ForaArea(p.easting, p.northing), d, e)))))

encodeToGrid36(geo, depth, e) ==
  IF depth < 1 \/ depth > 9
    THEN Error("Depth must be between 1 and 9")
    ELSE Bind(convertWGS84ToSIRGASAlbers(geo), LAMBDA p :
         Bind(ClampIndex(X_MIN_AREA, X_MAX_AREA, p.easting), LAMBDA i :
         Bind(ClampIndex(Y_MIN_AREA, Y_MAX_AREA, p.northing), LAMBDA j :
         IF ~( /\ IsFin(i) /\ i.v >= 0 /\ i.v < N
               /\ IsFin(j) /\ j.v >= 0 /\ j.v < N )
           THEN Error("i/j fora do dominio")
           ELSE EncodeIndex(i.v, j.v, ForaArea(p.easting, p.northing), depth, e))))

\* ---------------------------------------------------------- depth adjustment
\* 'Z'.repeat(n)
RECURSIVE Repeat(_, _)
Repeat(ch, n) == IF n <= 0 THEN << >> ELSE << ch >> \o Repeat(ch, n - 1)

Hash(h) == [ok |-> TRUE, hash |-> h]

\* Mutant of Padded: the padding is 'Z'.repeat(newDepth).
Padded_FullRepeat(hash, newDepth) == Hash(hash \o Repeat("Z", newDepth))

\* Lines 352-354: the catch branch.
Padded(hash, newDepth) == Hash(hash \o Repeat("Z", newDepth - Len(hash)))

\* Lines 344-350: the try branch; an error of decode or encode is caught.
Extended(hash, newDepth, e) ==
  Bind(decodeFromGrid36(hash, e), LAMBDA decoded :
  IF ~decoded.ok
    THEN Padded(hash, newDepth)
    ELSE Bind(convertSIRGASToWGS84(decoded.centroid.x, decoded.centroid.y, e),
              LAMBDA g :
         Bind(encodeToGrid36(g, newDepth, e), LAMBDA newResult :
         IF ~newResult.ok
           THEN Padded(hash, newDepth)
           ELSE Hash(newResult.hash))))

\* Mutant of adjustHashDepth: truncation keeps one character too many.
adjustHashDepth_LongTruncation(hash, newDepth, e) ==
  IF newDepth < 1 \/ newDepth > 9
    THEN Error("New depth must be between 1 and 9")
    ELSE IF Len(hash) = newDepth
      THEN Hash(hash)
      ELSE IF Len(hash) > newDepth
        THEN Hash(SubSeq(hash, 1, newDepth + 1))
        ELSE Extended(hash, newDepth, e)

\* Mutant of adjustHashDepth: truncation keeps the last newDepth characters.
adjustHashDepth_KeepTail(hash, newDepth, e) ==
  IF newDepth < 1 \/ newDepth > 9
    THEN Error("New depth must be between 1 and 9")
    ELSE IF Len(hash) = newDepth
      THEN Hash(hash)
      ELSE IF Len(hash) > newDepth
        THEN Hash(SubSeq(hash, Len(hash) - newDepth + 1, Len(hash)))
        ELSE Extended(hash, newDepth, e)

\* Mutant of adjustHashDepth: the hash is decoded before it is truncated.
adjustHashDepth_Validating(hash, newDepth, e) ==
  IF newDepth < 1 \/ newDepth > 9
    THEN Error("New depth must be between 1 and 9")
    ELSE IF Len(hash) = newDepth
      THEN Hash(hash)
      ELSE Bind(decodeFromGrid36(hash, e), LAMBDA decoded :
           IF Len(hash) > newDepth
             THEN IF decoded.ok THEN Hash(SubSeq(hash, 1, newDepth)) ELSE decoded
             ELSE Extended(hash, newDepth, e))

\* Mutant of adjustHashDepth: the depth check excludes depth 9.
adjustHashDepth_Below9(hash, newDepth, e) ==
  IF newDepth < 1 \/ newDepth >= 9
    THEN Error("New depth must be between 1 and 9")
    ELSE IF Len(hash) = newDepth
      THEN Hash(hash)
      ELSE IF Len(hash) > newDepth
        THEN Hash(SubSeq(hash, 1, newDepth))
        ELSE Extended(hash, newDepth, e)

\* Mutant of adjustHashDepth: the length is compared before the depth is
\* checked.
adjustHashDepth_IdentityFirst(hash, newDepth, e) ==
  IF Len(hash) = newDepth
    THEN Hash(hash)
    ELSE IF newDepth < 1 \/ newDepth > 9
      THEN Error("New depth must be between 1 and 9")
      ELSE IF Len(hash) > newDepth
        THEN Hash(SubSeq(hash, 1, newDepth))
        ELSE Extended(hash, newDepth, e)

adjustHashDepth(hash, newDepth, e) ==
  IF newDepth < 1 \/ newDepth > 9
    THEN Error("New depth must be between 1 and 9")
    ELSE IF Len(hash) = newDepth
      THEN Hash(hash)
      ELSE IF Len(hash) > newDepth
        THEN Hash(SubSeq(hash, 1, newDepth))
        ELSE Extended(hash, newDepth, e)

\* ------------------------------------------------------------- tile search
UpperLetters ==
  << "A", "B", "C", "D", "E", "F", "G", "H", "I", "J", "K", "L", "M",
     "N", "O", "P", "Q", "R", "S", "T", "U", "V", "W", "X", "Y", "Z" >>
LowerLetters ==
  << "a", "b", "c", "d", "e", "f", "g", "h", "i", "j", "k", "l", "m",
     "n", "o", "p", "q", "r", "s", "t", "u", "v", "w", "x", "y", "z" >>

\* Mutant of ToUpperCase: the text is left as it is.
ToUpperCase_Identity(s) == s

\* String.prototype.toUpperCase, character by character.
ToUpperCase(s) ==
  [n \in 1..Len(s) |->
     IF \E m \in 1..26 : LowerLetters[m] = s[n]
       THEN UpperLetters[CHOOSE m \in 1..26 : LowerLetters[m] = s[n]]
       ELSE s[n]]

\* String.prototype.toLowerCase, character by character.
ToLowerCase(s) ==
  [n \in 1..Len(s) |->
     IF \E m \in 1..26 : UpperLetters[m] = s[n]
       THEN LowerLetters[CHOOSE m \in 1..26 : UpperLetters[m] = s[n]]
       ELSE s[n]]

\* String.prototype.trim: white space is removed from both ends.
RECURSIVE Trim(_)
Trim(s) ==
  IF s = << >>
    THEN s
    ELSE IF Head(s) = " "
      THEN Trim(Tail(s))
      ELSE IF s[Len(s)] = " "
        THEN Trim(SubSeq(s, 1, Len(s) - 1))
        ELSE s

\* The set built from tileSearch.ts's own copy of the symbol grid.
VALID_CHARS ==
  { "Z", "G", "H", "I", "J", "K",
    "Y", "F", "4", "5", "6", "L",
    "X", "E", "3", "0", "7", "M",
    "W", "D", "2", "1", "8", "N",
    "V", "C", "B", "A", "9", "O",
    "U", "T", "S", "R", "Q", "P" }

isValidTileId(tileId) ==
  IF tileId = << >>
    THEN FALSE
    ELSE \A n \in 1..Len(tileId) : tileId[n] \in VALID_CHARS

searchTileById(tileId, e) ==
  IF ~isValidTileId(tileId)
    THEN Error("ID de tile invalido")
    ELSE Bind(decodeFromGrid36(tileId, e), LAMBDA decoded :
         IF ~decoded.ok
           THEN [ok |-> FALSE, err |-> "Erro ao buscar tile ID",
                 cause |-> decoded.err]
           ELSE Bind(convertSIRGASToWGS84(decoded.bounds.xmin,
                                          decoded.bounds.ymin, e),
                     LAMBDA bottomLeft :
                [ok |-> TRUE,
                 tileId |-> decoded.hash,
                 depth |-> decoded.depth,
                 tileSize |-> decoded.tileSize,
                 sirgas |-> [easting |-> decoded.bounds.xmin,
                             northing |-> decoded.bounds.ymin,
                             centerEasting |-> decoded.centroid.x,
                             centerNorthing |-> decoded.centroid.y],
                 gps |-> [latitude |-> bottomLeft.lat,
                          longitude |-> bottomLeft.lon,
                          centerLatitude |-> decoded.centroid.lat,
                          centerLongitude |-> decoded.centroid.lon],
                 bounds |-> [minEasting |-> decoded.bounds.xmin,
                             maxEasting |-> decoded.bounds.xmax,
                             minNorthing |-> decoded.bounds.ymin,
                             maxNorthing |-> decoded.bounds.ymax]]))

\* The text field's onChangeText: the field's state holds the typed text
\* in upper case.
onChangeText(value) == ToUpperCase(value)

\* The search screen's handler: the alert, the search error or the result
\* that it leaves on the screen.
handleSearch(searchTileId, e) ==
  Bind(ToUpperCase(Trim(searchTileId)), LAMBDA normalizedTileId :
  IF normalizedTileId = << >>
    THEN Error("Por favor, insira um ID de tile para buscar")
    ELSE IF ~isValidTileId(normalizedTileId)
      THEN Error("ID de tile invalido. Use apenas caracteres do Grid36")
      ELSE searchTileById(normalizedTileId, e))

\* ------------------------------------------------------------------- inputs
\* The cell whose base-6 digits are all 3 on both axes.
AllThrees == 3 * ((Pow6(9) - 1) \div 5)

\* Digit positions at which the sample cells differ from AllThrees.
SampleScales == { 0, 4, 8 }

SampleI ==
  { 0, N - 1 }
    \cup { AllThrees + m * Pow6(p) : m \in -MaxOff..MaxOff, p \in SampleScales }
SampleJ == { 0, N - 1, AllThrees }

NonFinite == { NaN, PosInf, NegInf }

\* Projected eastings: the lower edge of each sample cell, the last point
\* below the upper edge of three of them, the points next to the domain's
\* boundary, and the non-finite values.
SampleX ==
  { Fin(M(X_MIN_AREA + i)) : i \in SampleI }
    \cup { Fin(M(X_MIN_AREA + i + 1) - 1) : i \in { 0, AllThrees, N - 1 } }
    \cup { Fin(M(X_MIN_AREA) - 1), Fin(M(X_MAX_AREA)), Fin(M(X_MAX_AREA + 1)) }
    \cup NonFinite
SampleY ==
  { Fin(M(Y_MIN_AREA + j) + HalfUnit) : j \in SampleJ }
    \cup { Fin(M(Y_MAX_AREA)), NaN }

Points == { [lon |-> x, lat |-> y] : x \in SampleX, y \in SampleY }

Depths == 0 .. MAX_DEPTH + 1

Substitute(s, p, ch) == [s EXCEPT ![p] = ch]

\* Raw strings: runs of one valid symbol of every length up to MaxRawLen,
\* and runs whose first or last character is replaced by a character
\* outside the alphabet (a lower-case letter, a hyphen).
RawValid == { Repeat(c, n) : c \in { "0", "Z" }, n \in 0..MaxRawLen }
RawIds ==
  RawValid
    \cup { Substitute(Repeat("Z", n), 1, "z") : n \in 1..MaxRawLen }
    \cup { Substitute(Repeat("0", n), n, "-") : n \in 1..MaxRawLen }

\* Texts typed into the search field: the raw strings, the lower-case forms
\* of the valid ones, the same between blanks, and a blank alone.
TypedIds ==
  RawIds
    \cup { ToLowerCase(h) : h \in RawValid }
    \cup { << " " >> \o ToLowerCase(h) \o << " " >> : h \in RawValid }

\* -------------------------------------------------------------------- state
VARIABLES
  env,     \* how the projection library rounds in this run
  call,    \* the last call of the core: operation and arguments
  result,  \* what it returned, or the error it raised
  steps,   \* calls made so far
  store,   \* the items of AsyncStorage
  hooks,   \* the state of every useStorage instance
  ops,     \* storage operations started so far
  currentLocation,     \* the converter screen: useLocation's currentLocation
  conversionResult,    \* the displayed conversion, useState of line 94
  address,             \* the displayed address
  isConverting,
  isFetchingAddress,
  requestIdRef,        \* requestIdRef.current
  closure,             \* the values that performConversion captured when
                       \* it was last created
  calls,               \* performConversion calls that stand at an await
  levelCalls,          \* handleLevelChange calls that wait for setSelectedLevel
  events               \* location updates and presses so far

\* The variables of the storage layer.
storageVars == << store, hooks, ops >>

\* The variables of the core.
coreVars == << env, call, result, steps >>

\* The variables of the converter screen.
screenVars ==
  << currentLocation, conversionResult, address, isConverting,
     isFetchingAddress, requestIdRef, closure, calls, levelCalls, events >>

\* The converter screen before it is mounted.
ScreenUnmounted ==
  /\ currentLocation = << >>
  /\ conversionResult = << >>
  /\ address = << >>
  /\ isConverting = FALSE
  /\ isFetchingAddress = FALSE
  /\ requestIdRef = 0
  /\ closure = << >>
  /\ calls = { }
  /\ levelCalls = { }
  /\ events = 0

vars == << coreVars, storageVars, screenVars >>

NoGeo == [lon |-> NaN, lat |-> NaN]
Call(op, geo, depth, hash) ==
  [op |-> op, geo |-> geo, depth |-> depth, hash |-> hash]

Init ==
  /\ env \in Env
  /\ call = Call("none", NoGeo, 0, << >>)
  /\ result = Error("none")
  /\ steps = 0
  /\ store = [history |-> << >>, level |-> << >>]
  /\ hooks = << >>
  /\ ops = 0
  /\ ScreenUnmounted

\* The ID a call works on: a raw string in the first call, afterwards the
\* ID that the last encode or adjust call returned.
HeldIds ==
  IF steps = 0
    THEN RawIds
    ELSE IF result.ok /\ call.op \in { "encode", "adjust" }
      THEN { result.hash }
      ELSE { }

Encode ==
  /\ steps = 0
  /\ \E g \in Points, d \in Depths :
       /\ call' = Call("encode", g, d, << >>)
       /\ result' = encodeToGrid36(g, d, env)
  /\ steps' = steps + 1
  /\ UNCHANGED << env, storageVars, screenVars >>

Decode ==
  /\ steps <= MaxAdjust
  /\ \E h \in HeldIds :
       /\ call' = Call("decode", NoGeo, 0, h)
       /\ result' = decodeFromGrid36(h, env)
  /\ steps' = steps + 1
  /\ UNCHANGED << env, storageVars, screenVars >>

Adjust ==
  /\ steps <= MaxAdjust
  /\ \E h \in HeldIds, d \in Depths :
       /\ call' = Call("adjust", NoGeo, d, h)
       /\ result' = adjustHashDepth(h, d, env)
  /\ steps' = steps + 1
  /\ UNCHANGED << env, storageVars, screenVars >>

TileSize ==
  /\ steps = 0
  /\ \E d \in Depths :
       /\ call' = Call("tileSize", NoGeo, d, << >>)
       /\ result' = getTileSizeFromLevel(d)
  /\ steps' = steps + 1
  /\ UNCHANGED << env, storageVars, screenVars >>

\* The text typed into the search field: anything in the first call,
\* afterwards the ID that the last call returned, as shown or in lower case.
TypedNow ==
  IF steps = 0
    THEN TypedIds
    ELSE HeldIds \cup { ToLowerCase(h) : h \in HeldIds }

\* The text is typed and the search button is pressed; call.hash keeps the
\* text as typed.
Search ==
  /\ steps <= MaxAdjust
  /\ \E t \in TypedNow :
       /\ call' = Call("search", NoGeo, 0, t)
       /\ result' = handleSearch(onChangeText(t), env)
  /\ steps' = steps + 1
  /\ UNCHANGED << env, storageVars, screenVars >>

Next == Encode \/ Decode \/ Adjust \/ TileSize \/ Search

Spec == Init /\ [][Next]_vars


\* ------------------------------------------------------------ storage layer
\* The cap of saveQuery's slice(0, 100).
HISTORY_CAP == 100
\* useState<number>(10): the level of a new useStorage instance.
INITIAL_LEVEL == 10
\* The largest level that loadData and setSelectedLevel accept.
MAX_LEVEL == 17

Instances == 1..MaxHooks

\* A stored query, reduced to the fields that the storage layer reads.
Query(id, timestamp) == [id |-> id, timestamp |-> timestamp]

\* The queries that the screens save: the later one has the later timestamp.
Queries == { Query(n, 1000 + n) : n \in 1..MaxQueries }

\* An item of AsyncStorage: << >> when getItem returns null, << v >> when
\* the stored text parses to v.
NoItem == << >>
Item(v) == << v >>

\* existing.filter(q => q.id !== id)
WithoutId(list, id) ==
  LET Keep(q) == q.id # id IN SelectSeq(list, Keep)

\* list.slice(0, n)
Slice(list, n) == IF Len(list) <= n THEN list ELSE SubSeq(list, 1, n)

IsSortedDesc(list) ==
  \A k \in 1..(Len(list) - 1) : list[k].timestamp >= list[k + 1].timestamp

\* list.sort((a, b) => b.timestamp - a.timestamp): a stable sort, newest
\* first.  Entry k goes behind the entries that are newer and behind the
\* entries of the same timestamp that stand before it.
SortDesc(list) ==
  IF IsSortedDesc(list)
    THEN list
    ELSE Bind([k \in 1..Len(list) |->
                 Cardinality({ m \in 1..Len(list) :
                    \/ list[m].timestamp > list[k].timestamp
                    \/ list[m].timestamp = list[k].timestamp /\ m < k }) + 1],
              LAMBDA place :
              [p \in 1..Len(list) |->
                 list[CHOOSE k \in 1..Len(list) : place[k] = p]])

\* The operation of a useStorage instance that waits for AsyncStorage.
\* kind names the call and the await it stands at, list is the list it
\* will write, arg its argument (a query, an id or a level).
NoOp == [kind |-> "idle", list |-> << >>, arg |-> NoItem]
Op(kind, list, arg) == [kind |-> kind, list |-> list, arg |-> arg]

\* A new instance: the initial values of useState and loadData started by
\* the effect of lines 37-46.
NewHook ==
  [queryHistory |-> << >>, selectedLevel |-> INITIAL_LEVEL,
   loading |-> TRUE, error |-> "null", op |-> NoOp]

\* storageEvents.emit('historyUpdated'): the listener of every mounted
\* instance calls loadData.
Emit(hs) == [i \in DOMAIN hs |-> [hs[i] EXCEPT !.loading = TRUE]]

StorageInit ==
  /\ env = Exact
  /\ call = Call("none", NoGeo, 0, << >>)
  /\ result = Error("none")
  /\ steps = 0
  /\ store = [history |-> NoItem, level |-> NoItem]
  /\ hooks = [i \in Instances |-> NewHook]
  /\ ops = 0
  /\ ScreenUnmounted

\* Lines 52-67: the two getItem calls of loadData have returned.
LoadData(i) ==
  /\ hooks[i].loading
  /\ LET parsedHistory == IF store.history = NoItem THEN << >>
                          ELSE store.history[1]
         parsedLevel   == IF store.level = NoItem THEN INITIAL_LEVEL
                          ELSE store.level[1]
         accepted      == /\ store.level # NoItem
                          /\ parsedLevel >= 0 /\ parsedLevel <= MAX_LEVEL
     IN  hooks' = [hooks EXCEPT
                     ![i].queryHistory = SortDesc(parsedHistory),
                     ![i].selectedLevel =
                        IF accepted THEN parsedLevel ELSE @,
                     ![i].error = "null",
                     ![i].loading = FALSE]
  /\ UNCHANGED << store, ops >>
  /\ UNCHANGED << coreVars, screenVars >>

Idle(i) == hooks[i].op.kind = "idle" /\ ops < MaxOps

\* Lines 77-80: saveQuery is called and waits for getItem.
SaveQueryCall(i, query) ==
  /\ Idle(i)
  /\ hooks' = [hooks EXCEPT ![i].error = "null",
                            ![i].op = Op("saveRead", << >>, Item(query))]
  /\ ops' = ops + 1
  /\ UNCHANGED store
  /\ UNCHANGED << coreVars, screenVars >>

\* Lines 80-85: getItem has returned; the updated list is handed to setItem.
SaveQueryRead(i) ==
  /\ hooks[i].op.kind = "saveRead"
  /\ LET query    == hooks[i].op.arg[1]
         existing == IF store.history = NoItem THEN << >> ELSE store.history[1]
         updated  == Slice(<< query >> \o WithoutId(existing, query.id),
                           HISTORY_CAP)
     IN  hooks' = [hooks EXCEPT
                     ![i].op = Op("saveWrite", updated, Item(query))]
  /\ UNCHANGED << store, ops >>
  /\ UNCHANGED << coreVars, screenVars >>

\* Lines 85-88: setItem has written the list; state is set and the event
\* emitted.
SaveQueryWrite(i) ==
  /\ hooks[i].op.kind = "saveWrite"
  /\ store' = [store EXCEPT !.history = Item(hooks[i].op.list)]
  /\ hooks' = Emit([hooks EXCEPT ![i].queryHistory = hooks[i].op.list,
                                 ![i].op = NoOp])
  /\ UNCHANGED ops
  /\ UNCHANGED << coreVars, screenVars >>

\* Lines 97-99: deleteQuery filters the instance's own queryHistory and waits
\* for setItem.
DeleteQueryCall(i, queryId) ==
  /\ Idle(i)
  /\ hooks' = [hooks EXCEPT
                 ![i].op = Op("deleteWrite",
                              WithoutId(hooks[i].queryHistory, queryId),
                              Item(queryId))]
  /\ ops' = ops + 1
  /\ UNCHANGED store
  /\ UNCHANGED << coreVars, screenVars >>

\* Lines 99-101: setItem has written the filtered list.
DeleteQueryWrite(i) ==
  /\ hooks[i].op.kind = "deleteWrite"
  /\ store' = [store EXCEPT !.history = Item(hooks[i].op.list)]
  /\ hooks' = Emit([hooks EXCEPT ![i].queryHistory = hooks[i].op.list,
                                 ![i].op = NoOp])
  /\ UNCHANGED ops
  /\ UNCHANGED << coreVars, screenVars >>

\* Lines 109-113: removeItem has removed the history.
ClearHistory(i) ==
  /\ Idle(i)
  /\ store' = [store EXCEPT !.history = NoItem]
  /\ hooks' = Emit([hooks EXCEPT ![i].queryHistory = << >>])
  /\ ops' = ops + 1
  /\ UNCHANGED << coreVars, screenVars >>

\* Levels that the converter screen passes: handleLevelChange clamps the
\* value into 1..9.
CallerLevels == { 1, 9 }

\* Lines 121-130: the level is checked, written and set.
SetSelectedLevel(i, level) ==
  /\ Idle(i)
  /\ IF level < 0 \/ level > MAX_LEVEL
       THEN UNCHANGED << store, hooks >>
       ELSE /\ store' = [store EXCEPT !.level = Item(level)]
            /\ hooks' = [hooks EXCEPT ![i].selectedLevel = level]
  /\ ops' = ops + 1
  /\ UNCHANGED << coreVars, screenVars >>

\* An imported list of n entries, newest first, all older than Queries.
OldList(n) == [k \in 1..n |-> Query(100 + k, n - k + 1)]

\* The lists of the files that the user imports: one in the wrong order
\* with one id twice, one with as many entries as the cap and one with one
\* entry more.
ImportLists ==
  { << Query(1, 1001), Query(1, 1002) >>,
    OldList(HISTORY_CAP),
    OldList(HISTORY_CAP + 1) }

\* The parsed content of an imported file.
ImportData ==
  { [isArray |-> TRUE, queryHistory |-> l, selectedLevel |-> v] :
      l \in ImportLists, v \in { NoItem, Item(42) } }
    \cup { [isArray |-> FALSE, queryHistory |-> << >>, selectedLevel |-> NoItem] }

\* Lines 143-148: the file is parsed and sorted; importHistory waits for the
\* setItem of the history.
ImportHistoryCall(i, data) ==
  /\ Idle(i)
  /\ IF ~data.isArray
       THEN hooks' = [hooks EXCEPT ![i].error = "Erro ao importar historico"]
       ELSE hooks' = [hooks EXCEPT
                        ![i].op = Op("importHistory",
                                     SortDesc(data.queryHistory),
                                     data.selectedLevel)]
  /\ ops' = ops + 1
  /\ UNCHANGED store
  /\ UNCHANGED << coreVars, screenVars >>

\* Lines 148-149: the history is written; an import without a level goes on
\* to lines 154-156.
ImportHistoryWrite(i) ==
  /\ hooks[i].op.kind = "importHistory"
  /\ store' = [store EXCEPT !.history = Item(hooks[i].op.list)]
  /\ IF hooks[i].op.arg # NoItem
       THEN hooks' = [hooks EXCEPT ![i].op.kind = "importLevel"]
       ELSE hooks' = Emit([hooks EXCEPT ![i].queryHistory = hooks[i].op.list,
                                        ![i].op = NoOp])
  /\ UNCHANGED ops
  /\ UNCHANGED << coreVars, screenVars >>

\* Lines 150-155: the level of the file is written and set as it is.
ImportLevelWrite(i) ==
  /\ hooks[i].op.kind = "importLevel"
  /\ store' = [store EXCEPT !.level = hooks[i].op.arg]
  /\ hooks' = Emit([hooks EXCEPT ![i].selectedLevel = hooks[i].op.arg[1],
                                 ![i].queryHistory = hooks[i].op.list,
                                 ![i].op = NoOp])
  /\ UNCHANGED ops
  /\ UNCHANGED << coreVars, screenVars >>

\* Ids that the history screen asks to delete.
DeletedIds == (1..MaxQueries) \cup { 101 }

StorageNext ==
  \E i \in Instances :
    \/ LoadData(i)
    \/ \E q \in Queries : SaveQueryCall(i, q)
    \/ SaveQueryRead(i)
    \/ SaveQueryWrite(i)
    \/ \E id \in DeletedIds : DeleteQueryCall(i, id)
    \/ DeleteQueryWrite(i)
    \/ ClearHistory(i)
    \/ \E l \in CallerLevels : SetSelectedLevel(i, l)
    \/ \E d \in ImportData : ImportHistoryCall(i, d)
    \/ ImportHistoryWrite(i)
    \/ ImportLevelWrite(i)

StorageSpec == StorageInit /\ [][StorageNext]_vars

\* ---------------------------------------------------------- converter screen
\* The converter screen with its own useStorage instance (hooks[1]) and the
\* location of useLocation.  Every performConversion call is split at its
\* awaits; the values it reads from its closure are those of the render
\* that created it.

selectedLevel == hooks[1].selectedLevel

\* Two positions of the device, in different tiles at every depth.
ScreenPoints ==
  { [lon |-> Fin(M(X_MIN_AREA + i)), lat |-> Fin(M(Y_MIN_AREA + i) + HalfUnit)] :
      i \in { 0, N - 1 } }

\* The object that setCurrentLocation receives: a new object every time.
Location(geo, stamp) == [geo |-> geo, stamp |-> stamp]

\* The values captured by performConversion, line 214 and line 134.
Closure(location, level, conversion) ==
  [location |-> location, level |-> level, result |-> conversion]

\* The dependencies of line 214 are those of the last render.
Rendered ==
  closure.location = currentLocation /\ closure.level = selectedLevel

\* The level that an earlier session left in the store.
StoredLevel == 5

ScreenInit ==
  /\ env = Exact
  /\ call = Call("none", NoGeo, 0, << >>)
  /\ result = Error("none")
  /\ steps = 0
  /\ store = [history |-> NoItem, level |-> Item(StoredLevel)]
  /\ hooks = << NewHook >>
  /\ ops = 0
  /\ currentLocation = NoItem
  /\ conversionResult = NoItem
  /\ address = NoItem
  /\ isConverting = FALSE
  /\ isFetchingAddress = FALSE
  /\ requestIdRef = 0
  /\ closure = Closure(NoItem, INITIAL_LEVEL, NoItem)
  /\ calls = { }
  /\ levelCalls = { }
  /\ events = 0

\* Lines 131-164: the tile of the conversion, by adjusting the captured
\* tile when a depth is given and a result was captured, else by encoding.
Grid36Result(c, depthOverride, depth) ==
  IF c.result # NoItem /\ depthOverride # NoItem
    THEN Bind(adjustHashDepth(c.result[1].tileId, depth, env), LAMBDA a :
         IF ~a.ok
           THEN encodeToGrid36(c.location[1].geo, depth, env)
           ELSE Bind(decodeFromGrid36(a.hash, env), LAMBDA decoded :
                IF ~decoded.ok
                  THEN encodeToGrid36(c.location[1].geo, depth, env)
                  ELSE [ok |-> TRUE, hash |-> a.hash, depth |-> depth,
                        tileSize |-> getTileSizeFromLevel(depth),
                        ijOrigin |-> decoded.ijOrigin,
                        centroid |-> decoded.centroid,
                        foraArea |-> FALSE]))
    ELSE encodeToGrid36(c.location[1].geo, depth, env)

\* Lines 166-176: the ConversionResult; Date.now() is a clock that the
\* calls advance.
Conversion(c, g, depth, now) ==
  [gps |-> c.location[1], sirgas |-> g.centroid, tileId |-> g.hash,
   level |-> depth, tileSize |-> g.tileSize, timestamp |-> now]

\* Mutant of Finally: the flag is cleared whatever the request id.
Finally_Unchecked(requestId, flag) == FALSE

\* Lines 207-212: the value of a flag after the finally block.
Finally(requestId, flag) == IF requestId = requestIdRef' THEN FALSE ELSE flag

\* A call that stands at an await of lines 191-197.
Pending(requestId, stage, gps, query) ==
  [id |-> requestId, stage |-> stage, gps |-> gps, query |-> query]

\* Lines 121-191: performConversion of the closure c up to its first
\* await, which is the getItem of saveQuery (useStorage lines 78-80); hs is
\* the state of the storage hooks when it is called.
performConversion(hs, c, depthOverride) ==
  IF c.location = NoItem
    THEN /\ hooks' = hs
         /\ UNCHANGED << requestIdRef, isConverting, isFetchingAddress,
                         address, conversionResult, calls >>
    ELSE LET depth     == IF depthOverride = NoItem THEN c.level
                          ELSE depthOverride[1]
             requestId == requestIdRef + 1
             g         == Grid36Result(c, depthOverride, depth)
         IN  /\ requestIdRef' = requestId
             /\ address' = NoItem
             /\ IF ~g.ok
                  THEN /\ isConverting' = Finally(requestId, TRUE)
                       /\ isFetchingAddress' = Finally(requestId, TRUE)
                       /\ hooks' = hs
                       /\ UNCHANGED << conversionResult, calls >>
                  ELSE /\ isConverting' = TRUE
                       /\ hooks' = [hs EXCEPT ![1].error = "null"]
                       /\ isFetchingAddress' = TRUE
                       /\ conversionResult' =
                            Item(Conversion(c, g, depth, requestId))
                       /\ calls' = calls \cup
                            { Pending(requestId, "saveQuery", c.location[1],
                                      Query(<< requestId, g.hash >>,
                                            requestId)) }

\* The next location update or press arrives.
Arrives ==
  /\ events < MaxEvents
  /\ Cardinality(calls) + Cardinality(levelCalls) <= MaxPending

\* useLocation: setCurrentLocation with a new position.
LocationUpdate(geo) ==
  /\ Arrives
  /\ events' = events + 1
  /\ currentLocation' = Item(Location(geo, events + 1))
  /\ UNCHANGED << storageVars, conversionResult, address, isConverting,
                  isFetchingAddress, requestIdRef, closure, calls, levelCalls >>
  /\ UNCHANGED coreVars

\* A render after currentLocation or selectedLevel changed: performConversion
\* is created again and the effect of lines 224-228 calls it.
Render ==
  /\ ~Rendered
  /\ LET c == Closure(currentLocation, selectedLevel, conversionResult)
     IN  /\ closure' = c
         /\ performConversion(hooks, c, NoItem)
  /\ UNCHANGED << store, ops, currentLocation, levelCalls, events >>
  /\ UNCHANGED coreVars

\* The values that the level buttons pass to handleLevelChange: the minus
\* and plus buttons unless disabled, and one of the presets.
PressedPresets == { 5 }
PressValues ==
  { v \in { selectedLevel - 1, selectedLevel + 1 } :
      ~(v = selectedLevel - 1 /\ selectedLevel = 1)
        /\ ~(v = selectedLevel + 1 /\ selectedLevel = 9) }
    \cup PressedPresets

\* Line 248.
ClampDepth(value) == IF value > 9 THEN 9 ELSE IF value < 1 THEN 1 ELSE value

\* Lines 247-249: a level button is pressed; handleLevelChange waits for
\* setSelectedLevel with the performConversion of the current render.
PressLevel(value) ==
  /\ Arrives
  /\ Rendered
  /\ events' = events + 1
  /\ levelCalls' = levelCalls \cup
       { [id |-> events + 1, depth |-> ClampDepth(value),
          closure |-> closure] }
  /\ UNCHANGED << storageVars, currentLocation, conversionResult, address,
                  isConverting, isFetchingAddress, requestIdRef, closure,
                  calls >>
  /\ UNCHANGED coreVars

Staged(set, x, stage) == (set \ { x }) \cup { [x EXCEPT !.stage = stage] }

\* useStorage lines 124-125 and line 250: setItem has written the level,
\* the state is set and handleLevelChange goes on with
\* performConversion(depth), before the screen is rendered again.
LevelWritten(lc) ==
  /\ store' = [store EXCEPT !.level = Item(lc.depth)]
  /\ levelCalls' = levelCalls \ { lc }
  /\ performConversion([hooks EXCEPT ![1].selectedLevel = lc.depth],
                        lc.closure, Item(lc.depth))
  /\ UNCHANGED << ops, currentLocation, closure, events >>
  /\ UNCHANGED coreVars

\* useStorage lines 126-129 and line 250: setItem has failed; the error is
\* kept, setSelectedLevel returns and handleLevelChange goes on.
LevelWriteFailed(lc) ==
  /\ levelCalls' = levelCalls \ { lc }
  /\ performConversion(
       [hooks EXCEPT ![1].error = "Erro ao salvar nivel selecionado"],
       lc.closure, Item(lc.depth))
  /\ UNCHANGED << store, ops, currentLocation, closure, events >>
  /\ UNCHANGED coreVars

\* useStorage lines 80-88 and lines 193-195: saveQuery has read the list,
\* written it with the query in front and emitted the event; a superseded
\* call returns, the latest one asks for the address.
SaveWritten(c) ==
  /\ c.stage = "saveQuery"
  /\ LET existing == IF store.history = NoItem THEN << >>
                     ELSE store.history[1]
         updated  == Slice(<< c.query >> \o WithoutId(existing, c.query.id),
                           HISTORY_CAP)
     IN  /\ store' = [store EXCEPT !.history = Item(updated)]
         /\ hooks' = Emit([hooks EXCEPT ![1].queryHistory = updated])
  /\ requestIdRef' = requestIdRef
  /\ calls' = IF c.id # requestIdRef
                THEN calls \ { c }
                ELSE Staged(calls, c, "address")
  /\ isConverting' = IF c.id # requestIdRef
                       THEN Finally(c.id, isConverting) ELSE isConverting
  /\ isFetchingAddress' =
       IF c.id # requestIdRef
         THEN Finally(c.id, isFetchingAddress) ELSE isFetchingAddress
  /\ UNCHANGED << ops, currentLocation, conversionResult, address, closure,
                  levelCalls, events >>
  /\ UNCHANGED coreVars

\* useStorage lines 89-93 and lines 204-212: saveQuery has failed; the
\* error is caught and the finally block runs.
SaveFailed(c) ==
  /\ c.stage = "saveQuery"
  /\ hooks' = [hooks EXCEPT ![1].error = "Erro ao salvar consulta"]
  /\ requestIdRef' = requestIdRef
  /\ calls' = calls \ { c }
  /\ isConverting' = Finally(c.id, isConverting)
  /\ isFetchingAddress' = Finally(c.id, isFetchingAddress)
  /\ UNCHANGED << store, ops, currentLocation, conversionResult, address,
                  closure, levelCalls, events >>
  /\ UNCHANGED coreVars

\* The text that getAddressFromCoordinates returns for a position.
Addresses(gps) == { [of |-> gps.geo] }

\* Lines 197-212: the address has arrived.
AddressFound(c, foundAddress) ==
  /\ c.stage = "address"
  /\ requestIdRef' = requestIdRef
  /\ calls' = calls \ { c }
  /\ address' = IF c.id = requestIdRef THEN Item(foundAddress) ELSE address
  /\ isConverting' = Finally(c.id, isConverting)
  /\ isFetchingAddress' = Finally(c.id, isFetchingAddress)
  /\ UNCHANGED << storageVars, currentLocation, conversionResult, closure,
                  levelCalls, events >>
  /\ UNCHANGED coreVars

\* The listener of useStorage line 40 reloads the hook's state.
ScreenLoadData == LoadData(1)

ScreenNext ==
  \/ \E geo \in ScreenPoints : LocationUpdate(geo)
  \/ Render
  \/ \E value \in PressValues : PressLevel(value)
  \/ \E lc \in levelCalls : LevelWritten(lc)
  \/ \E lc \in levelCalls : LevelWriteFailed(lc)
  \/ \E c \in calls : SaveWritten(c)
  \/ \E c \in calls : SaveFailed(c)
  \/ \E c \in calls : \E a \in Addresses(c.gps) : AddressFound(c, a)
  \/ ScreenLoadData

ScreenSpec == ScreenInit /\ [][ScreenNext]_vars


\* ------------------------------------------------------------------- claims
\* A finite coordinate x clamped into [lo, hi), in sub-units.
ClampCoord(lo, hi, x) ==
  IF x < M(lo) THEN M(lo) ELSE IF x > M(hi) - EPS THEN M(hi) - EPS ELSE x

EncodedOk == call.op = "encode" /\ result.ok
FinitePoint == IsFin(call.geo.lon) /\ IsFin(call.geo.lat)

Contains(b, x, y) == b.xmin <= x /\ x < b.xmax /\ b.ymin <= y /\ y < b.ymax
Inside(b, outer) ==
  /\ outer.xmin <= b.xmin /\ b.xmax <= outer.xmax
  /\ outer.ymin <= b.ymin /\ b.ymax <= outer.ymax

\* C1: round-trip containment.  After encodeToGrid36 has returned an ID for
\* a point with finite planar coordinates, the bounds that decodeFromGrid36
\* returns for that ID contain the point clamped into the domain.
C1_RoundTripContainment ==
  (EncodedOk /\ FinitePoint) =>
    LET decoded == decodeFromGrid36(result.hash, env)
        x == ClampCoord(X_MIN_AREA, X_MAX_AREA, call.geo.lon.v)
        y == ClampCoord(Y_MIN_AREA, Y_MAX_AREA, call.geo.lat.v)
    IN  decoded.ok /\ Contains(decoded.bounds, x, y)

\* C2: prefix exactness.  The ID of a point at depth d1 is the first d1
\* characters of its ID at every greater depth d2.
C2_PrefixExactness ==
  EncodedOk =>
    \A d1 \in 1..(call.depth - 1) :
      LET shorter == encodeToGrid36(call.geo, d1, env)
      IN  shorter.ok /\ shorter.hash = SubSeq(result.hash, 1, d1)

\* An ID of depth 9 whose shorter prefixes were all compared, with more than
\* one symbol in it.
C2_Witness ==
  /\ EncodedOk /\ call.depth = 9 /\ Len(result.hash) = 9
  /\ \E a, b \in 1..9 : result.hash[a] # result.hash[b]
  /\ encodeToGrid36(call.geo, 4, env).hash = SubSeq(result.hash, 1, 4)

\* C3: lossless index round trip.  Decoding the ID that the encoder made
\* from cell (i, j) at depth d returns the lower-left cell of the depth-d
\* tile of (i, j) as ijOrigin.
C3_LosslessIndex ==
  (EncodedOk /\ FinitePoint) =>
    LET i == ClampIndex(X_MIN_AREA, X_MAX_AREA, call.geo.lon).v
        j == ClampIndex(Y_MIN_AREA, Y_MAX_AREA, call.geo.lat).v
        side == Pow6(9 - call.depth)
        decoded == decodeFromGrid36(result.hash, env)
    IN  /\ decoded.ok
        /\ decoded.ijOrigin = [i0 |-> i - (i % side), j0 |-> j - (j % side)]

\* C4: hierarchical containment.  The bounds of an ID that the decoder
\* accepts lie inside the bounds of each of its proper prefixes.
C4_HierarchicalContainment ==
  (call.op = "decode" /\ result.ok) =>
    \A d \in 1..(Len(call.hash) - 1) :
      LET parent == decodeFromGrid36(SubSeq(call.hash, 1, d), env)
      IN  parent.ok /\ Inside(result.bounds, parent.bounds)


\* C5: refine-then-coarsen round trip.  An ID that encodeToGrid36 returned
\* at depth d, adjusted to a greater depth and then back to d, is the same
\* ID again, whatever the projection library returned in between.
C5_RefineThenCoarsen ==
  EncodedOk =>
    \A deeper \in (call.depth + 1)..9 :
      LET refined == adjustHashDepth(result.hash, deeper, env)
      IN  /\ refined.ok
          /\ \A e2 \in Env :
               adjustHashDepth(refined.hash, call.depth, e2) = Hash(result.hash)

\* An ID of depth 3 whose refinement to depth 9 is re-encoded under one
\* outcome of the library and padded under another.
C5_Witness ==
  /\ EncodedOk /\ call.depth = 3
  /\ \E e1 \in Env :
       /\ adjustHashDepth(result.hash, 9, e1).ok
       /\ adjustHashDepth(result.hash, 9, e1) # Padded(result.hash, 9)
  /\ \E e1 \in Env : adjustHashDepth(result.hash, 9, e1) = Padded(result.hash, 9)

IsPrefix(p, s) == Len(p) <= Len(s) /\ SubSeq(s, 1, Len(p)) = p

\* C6: refinement picks the centroid's child.  With an exact projection,
\* adjusting a valid ID to a greater depth returns the ID of the tile of
\* that depth that contains the centroid of the given ID's tile: the given
\* ID is its prefix and its tile lies inside the given ID's tile.
C6_RefinementPicksCentroidChild ==
  ( /\ call.op = "adjust" /\ env = Exact
    /\ Len(call.hash) < call.depth /\ call.depth <= 9
    /\ decodeFromGrid36(call.hash, env).ok ) =>
    LET parent == decodeFromGrid36(call.hash, env)
        child  == decodeFromGrid36(result.hash, env)
    IN  /\ result.ok /\ Len(result.hash) = call.depth
        /\ IsPrefix(call.hash, result.hash)
        /\ child.ok
        /\ Contains(child.bounds, parent.centroid.x, parent.centroid.y)
        /\ Inside(child.bounds, parent.bounds)

\* C7: truncation agreement.  Adjusting any string to a depth d with
\* 1 <= d < its length returns its first d characters; the string is
\* neither decoded nor validated.
C7_TruncationAgreement ==
  ( /\ call.op = "adjust"
    /\ 1 <= call.depth /\ call.depth < Len(call.hash) /\ call.depth <= 9 ) =>
    result = Hash(SubSeq(call.hash, 1, call.depth))

\* A string longer than any ID, with a character outside the alphabet, cut
\* to three characters.
C7_Witness ==
  /\ call.op = "adjust" /\ call.depth = 3 /\ Len(call.hash) > 9
  /\ ~decodeFromGrid36(call.hash, env).ok
  /\ \E n \in 1..Len(call.hash) : call.hash[n] \notin Alphabet
  /\ result.ok /\ Len(result.hash) = 3

\* C8: depth-adjustment identity.  Adjusting a valid ID to its own length
\* returns it unchanged.
C8_AdjustIdentity ==
  ( /\ call.op = "adjust" /\ call.depth = Len(call.hash)
    /\ decodeFromGrid36(call.hash, env).ok ) =>
    result = Hash(call.hash)

\* An ID of depth 9 that encodeToGrid36 returned, adjusted to depth 9.
C8_Witness ==
  /\ call.op = "adjust" /\ steps = 2 /\ call.depth = 9 /\ Len(call.hash) = 9
  /\ result.ok /\ result.hash = call.hash

\* C9: reserved ID.  Decoding "000000000" returns the fixed reference
\* record, not the record that the symbols of the string stand for.
C9_ReservedId ==
  (call.op = "decode" /\ call.hash = ReferenceHash) =>
    LET general == DecodeGeneral(call.hash, env) IN
    /\ result.ok /\ result.depth = 9 /\ result.tileSize = 1
    /\ result.centroid.x = M(MARCO_ZERO_X) + HalfUnit
    /\ result.centroid.y = M(MARCO_ZERO_Y) + HalfUnit
    /\ result.bounds = [xmin |-> M(MARCO_ZERO_X), xmax |-> M(MARCO_ZERO_X + 1),
                        ymin |-> M(MARCO_ZERO_Y), ymax |-> M(MARCO_ZERO_Y + 1)]
    /\ general.ok
    /\ result.bounds # general.bounds
    /\ result.ijOrigin # general.ijOrigin
    /\ << result.centroid.x, result.centroid.y >>
         # << general.centroid.x, general.centroid.y >>

\* The decoder has returned a record for the reserved ID.
C9_Witness ==
  call.op = "decode" /\ call.hash = ReferenceHash /\ result.ok

HasForeignChar(s) == \E n \in 1..Len(s) : s[n] \notin Alphabet

\* C10: alphabet closure.  The decoder raises an error for every string
\* that holds a character outside the 36 symbols of GLYPH_GRID.
C10_AlphabetClosure ==
  (call.op = "decode" /\ HasForeignChar(call.hash)) => ~result.ok

\* A string of valid length whose only fault is a lower-case letter has
\* been rejected for that letter.
C10_Witness ==
  /\ call.op = "decode" /\ Len(call.hash) \in 1..9
  /\ \E n \in 1..Len(call.hash) : call.hash[n] = "z"
  /\ ~result.ok /\ result.err = "simbolo invalido no grid36"

OnlySymbols(s) == \A n \in 1..Len(s) : s[n] \in Alphabet

\* C11: length validation.  The decoder raises an error for the empty
\* string and for every string of more than 9 characters, and returns a
\* record for every string of 1 to 9 symbols of GLYPH_GRID.
C11_LengthValidation ==
  call.op = "decode" =>
    /\ (Len(call.hash) = 0 \/ Len(call.hash) > 9) => ~result.ok
    /\ (Len(call.hash) \in 1..9 /\ OnlySymbols(call.hash)) =>
         (result.ok /\ result.hash = call.hash)

\* A string of symbols only, one longer than the longest ID, was rejected
\* for its length.
C11_Witness ==
  /\ call.op = "decode" /\ Len(call.hash) = MAX_DEPTH + 1
  /\ OnlySymbols(call.hash)
  /\ ~result.ok /\ result.err = "grid36: codigo deve ter 1..9 caracteres"

DepthOutOfRange(d) == d < 1 \/ d > 9

\* C12: encode depth precondition.  For a depth below 1 or above 9
\* encodeToGrid36 raises the depth error for every point and returns no ID.
C12_EncodeDepthPrecondition ==
  (call.op = "encode" /\ DepthOutOfRange(call.depth)) =>
    /\ ~result.ok
    /\ result.err = "Depth must be between 1 and 9"
    /\ "hash" \notin DOMAIN result

\* A point inside the domain was refused at depth 10, and one at depth 0.
C12_Witness ==
  /\ call.op = "encode" /\ call.depth \in { 0, MAX_DEPTH + 1 }
  /\ ~ForaArea(call.geo.lon, call.geo.lat)
  /\ ~result.ok

\* C13: adjust depth precondition.  For a new depth below 1 or above 9
\* adjustHashDepth raises the depth error for every string, also when the
\* new depth equals the length of the string.
C13_AdjustDepthPrecondition ==
  (call.op = "adjust" /\ DepthOutOfRange(call.depth)) =>
    /\ ~result.ok
    /\ result.err = "New depth must be between 1 and 9"
    /\ "hash" \notin DOMAIN result

\* A string of ten characters was refused adjustment to depth 10.
C13_Witness ==
  /\ call.op = "adjust" /\ call.depth = Len(call.hash)
  /\ call.depth = MAX_DEPTH + 1
  /\ ~result.ok

DepthInRange(d) == 1 <= d /\ d <= 9

OnUpperX == call.geo.lon = Fin(M(X_MAX_AREA)) /\ IsFin(call.geo.lat)
OnUpperY == call.geo.lat = Fin(M(Y_MAX_AREA)) /\ IsFin(call.geo.lon)

\* The column digits (axis 1) or row digits (axis 2) of an ID.
DigitsOf(h, axis) ==
  [ n \in 1..Len(h) |->
      IF axis = 1 THEN GRID36_POS[h[n]][1] ELSE 5 - GRID36_POS[h[n]][2] ]

\* C14: upper boundary.  A point whose easting is xMax, or whose northing is
\* yMax, the other coordinate being finite, is encoded without error at
\* every depth in 1..9: its index on that axis is N - 1, the last cell, and
\* foraArea is true.
C14_UpperBoundary ==
  (call.op = "encode" /\ DepthInRange(call.depth) /\ (OnUpperX \/ OnUpperY)) =>
    LET last == (N - 1) - ((N - 1) % Pow6(9 - call.depth)) IN
    /\ result.ok /\ result.foraArea
    /\ OnUpperX =>
         /\ ClampIndex(X_MIN_AREA, X_MAX_AREA, call.geo.lon) = Fin(N - 1)
         /\ result.ijOrigin.i0 = last
         /\ \A n \in 1..Len(result.hash) : DigitsOf(result.hash, 1)[n] = 5
    /\ OnUpperY =>
         /\ ClampIndex(Y_MIN_AREA, Y_MAX_AREA, call.geo.lat) = Fin(N - 1)
         /\ result.ijOrigin.j0 = last
         /\ \A n \in 1..Len(result.hash) : DigitsOf(result.hash, 2)[n] = 5

\* The corner point (xMax, yMax) was encoded at depth 9 into the last cell.
C14_Witness ==
  /\ call.op = "encode" /\ call.depth = 9 /\ OnUpperX /\ OnUpperY
  /\ result.ok /\ result.foraArea
  /\ result.ijOrigin = [i0 |-> N - 1, j0 |-> N - 1]

InDomain(x, y) ==
  /\ M(X_MIN_AREA) <= x /\ x < M(X_MAX_AREA)
  /\ M(Y_MIN_AREA) <= y /\ y < M(Y_MAX_AREA)

\* C15: out-of-domain points.  For a point with finite planar coordinates
\* and a depth in 1..9, encodeToGrid36 raises nothing, sets foraArea exactly
\* when the point is outside [xMin, xMax) x [yMin, yMax), and returns the ID
\* of the point clamped into the domain.
C15_OutOfDomain ==
  (call.op = "encode" /\ DepthInRange(call.depth) /\ FinitePoint) =>
    LET x == call.geo.lon.v
        y == call.geo.lat.v
        clamped == [lon |-> Fin(ClampCoord(X_MIN_AREA, X_MAX_AREA, x)),
                    lat |-> Fin(ClampCoord(Y_MIN_AREA, Y_MAX_AREA, y))]
        inner == encodeToGrid36(clamped, call.depth, env)
    IN  /\ result.ok
        /\ result.foraArea = ~InDomain(x, y)
        /\ inner.ok /\ ~inner.foraArea
        /\ result.hash = inner.hash

\* A point just west of the domain was encoded at depth 9 and flagged.
C15_Witness ==
  /\ call.op = "encode" /\ call.depth = 9
  /\ call.geo.lon = Fin(M(X_MIN_AREA) - 1) /\ IsFin(call.geo.lat)
  /\ result.ok /\ result.foraArea
  /\ result.ijOrigin.i0 = 0

\* C16: monotonic tile size.  For every depth d in 1..8 the tile size at
\* depth d is 6 times the tile size at depth d + 1, for getTileSizeFromLevel
\* and for the tileSize that the decoder returns; at depth 9 it is 1.
C16_MonotonicTileSize ==
  /\ (call.op = "tileSize" /\ DepthInRange(call.depth)) =>
       /\ result.ok /\ result.size.rem = 0
       /\ call.depth = 9 => result.size.whole = 1
       /\ call.depth <= 8 =>
            LET finer == getTileSizeFromLevel(call.depth + 1) IN
            /\ finer.ok /\ finer.size.rem = 0
            /\ result.size.whole = 6 * finer.size.whole
  /\ (call.op = "decode" /\ result.ok) =>
       /\ Len(call.hash) = 9 => result.tileSize = 1
       /\ Len(call.hash) <= 8 =>
            \A c \in Alphabet :
              LET finer == decodeFromGrid36(call.hash \o << c >>, env) IN
              finer.ok /\ result.tileSize = 6 * finer.tileSize

\* getTileSizeFromLevel(8) returned 6, and an ID of depth 8 decoded to a
\* tile of side 6.
C16_Witness ==
  \/ /\ call.op = "tileSize" /\ call.depth = 8
     /\ result.ok /\ result.size.whole = 6
  \/ /\ call.op = "decode" /\ Len(call.hash) = 8
     /\ result.ok /\ result.tileSize = 6

\* C17: ID shape and size per depth.  For a point inside the domain and a
\* depth d in 1..9 encodeToGrid36 returns an ID of exactly d symbols of
\* GLYPH_GRID, and decoding it gives the tile size getTileSizeFromLevel(d),
\* which is (xMax - xMin) / 6^d.
C17_IdShapeAndSize ==
  ( /\ call.op = "encode" /\ DepthInRange(call.depth) /\ FinitePoint
    /\ InDomain(call.geo.lon.v, call.geo.lat.v) ) =>
    /\ result.ok
    /\ Len(result.hash) = call.depth
    /\ OnlySymbols(result.hash)
    /\ LET decoded == decodeFromGrid36(result.hash, env)
           level   == getTileSizeFromLevel(call.depth)
       IN  /\ decoded.ok /\ level.ok
           /\ level.size.rem = 0
           /\ decoded.tileSize = level.size.whole
           /\ decoded.tileSize * Pow(6, call.depth) = X_MAX_AREA - X_MIN_AREA

\* A point inside the domain got a one-symbol ID at depth 1.
C17_Witness ==
  /\ call.op = "encode" /\ call.depth = 1 /\ FinitePoint
  /\ InDomain(call.geo.lon.v, call.geo.lat.v)
  /\ result.ok /\ Len(result.hash) = 1 /\ result.hash[1] \in Alphabet
  /\ result.tileSize = Pow6(8)

\* The try branch of adjustHashDepth raises: the decoder rejects the ID, or
\* the encoder rejects the centroid's geographic point.
ExtensionRaises(hash, newDepth, e) ==
  LET decoded == decodeFromGrid36(hash, e) IN
  \/ ~decoded.ok
  \/ ~encodeToGrid36(
        convertSIRGASToWGS84(decoded.centroid.x, decoded.centroid.y, e),
        newDepth, e).ok

\* C18: padding fallback.  When the decode or the re-encode inside a depth
\* extension raises, and len(id) < newDepth <= 9, adjustHashDepth returns
\* id followed by newDepth - len(id) copies of 'Z'.
C18_PaddingFallback ==
  ( /\ call.op = "adjust" /\ DepthInRange(call.depth)
    /\ Len(call.hash) < call.depth
    /\ ExtensionRaises(call.hash, call.depth, env) ) =>
    /\ result.ok
    /\ result.hash =
         [n \in 1..call.depth |->
            IF n <= Len(call.hash) THEN call.hash[n] ELSE "Z"]

\* An ID that the decoder rejects was extended by two or more symbols.
C18_Witness ==
  /\ call.op = "adjust" /\ DepthInRange(call.depth)
  /\ Len(call.hash) >= 1 /\ Len(call.hash) + 2 <= call.depth
  /\ ~decodeFromGrid36(call.hash, env).ok
  /\ result.ok /\ Len(result.hash) = call.depth
  /\ result.hash[call.depth] = "Z"

C18_WitnessReencode ==
  /\ call.op = "adjust" /\ DepthInRange(call.depth)
  /\ Len(call.hash) >= 1 /\ Len(call.hash) + 2 <= call.depth
  /\ decodeFromGrid36(call.hash, env).ok
  /\ ExtensionRaises(call.hash, call.depth, env)
  /\ result.ok /\ Len(result.hash) = call.depth
  /\ result.hash[call.depth] = "Z"

\* The projected point of an encode call has a non-finite coordinate.
NonFiniteProjection ==
  LET p == convertWGS84ToSIRGASAlbers(call.geo) IN
  p.easting \in NonFinite \/ p.northing \in NonFinite

\* C19: non-finite projection.  Whenever the projected easting or northing
\* is NaN, +Infinity or -Infinity, encodeToGrid36 raises an error and
\* returns no tile ID.
C19_NonFiniteRaises ==
  (call.op = "encode" /\ DepthInRange(call.depth) /\ NonFiniteProjection) =>
    ~result.ok

\* The part of C19 that the code keeps: a NaN coordinate fails the index
\* test of line 288.
C19_NaNRaises ==
  ( /\ call.op = "encode" /\ DepthInRange(call.depth)
    /\ (call.geo.lon = NaN \/ call.geo.lat = NaN) ) =>
    ~result.ok

\* An infinite easting was clamped by lines 283-284 to an edge cell.
C19_InfinityClamped ==
  /\ call.op = "encode" /\ DepthInRange(call.depth)
  /\ call.geo.lon \in { PosInf, NegInf } /\ IsFin(call.geo.lat)
  /\ result.ok /\ result.foraArea
  /\ result.ijOrigin.i0 \in { 0, N - Pow6(9 - call.depth) }

\* The text holds a lower-case letter.
HasLowerCase(s) ==
  \E n \in 1..Len(s) : \E m \in 1..26 : s[n] = LowerLetters[m]

\* The text with every lower-case form of a symbol of the alphabet replaced
\* by that symbol.
UpperForm(s) ==
  [n \in 1..Len(s) |->
     IF \E u \in Alphabet : ToLowerCase(<< u >>) = << s[n] >>
       THEN CHOOSE u \in Alphabet : ToLowerCase(<< u >>) = << s[n] >>
       ELSE s[n]]

\* C20 as stated: for every valid upper-case ID, decoding its lower-case
\* form succeeds and returns the same depth, origin index and bounds as
\* decoding the upper-case form; every ID that encodeToGrid36 returns is in
\* the upper-case form.
C20_CaseInsensitiveDecode ==
  /\ (call.op = "decode" /\ result.ok) =>
       LET lower == decodeFromGrid36(ToLowerCase(call.hash), env) IN
       /\ lower.ok
       /\ lower.depth = result.depth
       /\ lower.ijOrigin = result.ijOrigin
       /\ lower.bounds = result.bounds
  /\ (call.op = "encode" /\ result.ok) => ~HasLowerCase(result.hash)

\* C20 amended: decodeFromGrid36 compares symbols exactly and rejects an ID
\* that holds a lower-case letter; the search screen upper-cases and trims
\* the typed text first, so that the search for the lower-case form of a
\* valid ID shows the depth, tile size and bounds of the upper-case form;
\* every ID that encodeToGrid36 returns consists of upper-case symbols of
\* GLYPH_GRID.
C20_CaseNormalisedBySearch ==
  /\ (call.op = "decode" /\ HasLowerCase(call.hash)) => ~result.ok
  /\ call.op = "search" =>
       LET upper   == UpperForm(Trim(call.hash))
           decoded == decodeFromGrid36(upper, env)
       IN  decoded.ok =>
             /\ result.ok
             /\ result = handleSearch(upper, env)
             /\ result.tileId = upper
             /\ result.depth = decoded.depth
             /\ result.tileSize = decoded.tileSize
             /\ result.bounds = [minEasting  |-> decoded.bounds.xmin,
                                 maxEasting  |-> decoded.bounds.xmax,
                                 minNorthing |-> decoded.bounds.ymin,
                                 maxNorthing |-> decoded.bounds.ymax]
  /\ (call.op = "encode" /\ result.ok) =>
       /\ OnlySymbols(result.hash)
       /\ ~HasLowerCase(result.hash)

\* The lower-case form of an ID of two or more symbols was searched for
\* and found.
C20_Witness ==
  /\ call.op = "search" /\ HasLowerCase(call.hash)
  /\ result.ok /\ result.depth >= 2
  /\ result.tileId = UpperForm(Trim(call.hash))

\* The number whose base-6 digits, most significant first, are ds.
RECURSIVE Accumulate(_)
Accumulate(ds) ==
  IF ds = << >>
    THEN 0
    ELSE Accumulate(SubSeq(ds, 1, Len(ds) - 1)) * 6 + ds[Len(ds)]

ValidId(h) == Len(h) \in 1..9 /\ OnlySymbols(h)

\* C21: decode geometry.  For every valid ID of length d other than the
\* reserved one, whose symbols accumulate to (i, j), and scale = 6^(9-d),
\* decodeFromGrid36 returns ijOrigin = (i*scale, j*scale), the bounds
\* [xMin + i*scale, xMin + i*scale + scale] x [yMin + j*scale, yMin + j*scale
\* + scale] and the centroid (xMin + i*scale + floor(scale/2) + 0.5, yMin +
\* j*scale + floor(scale/2) + 0.5); the centroid is strictly inside the
\* bounds and the bounds are inside the domain.
C21_DecodeGeometry ==
  (call.op = "decode" /\ ValidId(call.hash) /\ call.hash # ReferenceHash) =>
    LET i     == Accumulate(DigitsOf(call.hash, 1))
        j     == Accumulate(DigitsOf(call.hash, 2))
        scale == Pow(6, 9 - Len(call.hash))
        b     == result.bounds
        c     == result.centroid
    IN  /\ result.ok
        /\ result.ijOrigin = [i0 |-> i * scale, j0 |-> j * scale]
        /\ b = [xmin |-> M(X_MIN_AREA + i * scale),
                ymin |-> M(Y_MIN_AREA + j * scale),
                xmax |-> M(X_MIN_AREA + i * scale + scale),
                ymax |-> M(Y_MIN_AREA + j * scale + scale)]
        /\ c.x = M(X_MIN_AREA + i * scale + (scale \div 2)) + HalfUnit
        /\ c.y = M(Y_MIN_AREA + j * scale + (scale \div 2)) + HalfUnit
        /\ b.xmin < c.x /\ c.x < b.xmax
        /\ b.ymin < c.y /\ c.y < b.ymax
        /\ M(X_MIN_AREA) <= b.xmin /\ b.xmax <= M(X_MAX_AREA)
        /\ M(Y_MIN_AREA) <= b.ymin /\ b.ymax <= M(Y_MAX_AREA)

\* An ID of depth 9 with a non-zero index on both axes, other than the
\* reserved one, was decoded.
C21_Witness ==
  /\ call.op = "decode" /\ Len(call.hash) = 9 /\ OnlySymbols(call.hash)
  /\ call.hash # ReferenceHash
  /\ result.ok /\ result.tileSize = 1
  /\ result.ijOrigin.i0 > 0 /\ result.ijOrigin.j0 > 0
  /\ result.centroid.x = result.bounds.xmin + HalfUnit

\* The ID of d symbols that the encoder's loop gives to the digit sequences
\* whose values are a and b (each below 6^d).
IdOfDigits(a, b, d) == EncodeLoop(8, a * Pow6(9 - d), b * Pow6(9 - d), d)

\* C22: symbol bijection.  GLYPH_GRID holds 36 pairwise distinct symbols;
\* for every digit pair (dI, dJ) the decoder maps the symbol
\* GLYPH_GRID[5 - dJ][dI] back to (dI, dJ); so an ID has one pair of digit
\* sequences only: of all pairs of the length of a decoded ID, the one that
\* the decoder returns is the only one that the encoder maps to that ID.
C22_SymbolBijection ==
  /\ Cardinality(Alphabet) = 36
  /\ \A dI \in 0..5, dJ \in 0..5 :
       LET ch == GLYPH_GRID[(5 - dJ) + 1][dI + 1] IN
       /\ ch \in DOMAIN GRID36_POS
       /\ GRID36_POS[ch][1] = dI
       /\ 5 - GRID36_POS[ch][2] = dJ
       /\ DecodeLoop(<< ch >>, 1, 0, 0) = [ok |-> TRUE, i |-> dI, j |-> dJ]
  /\ (call.op = "decode" /\ ValidId(call.hash) /\ Len(call.hash) <= 2) =>
       LET d   == Len(call.hash)
           acc == DecodeLoop(call.hash, 1, 0, 0)
       IN  /\ acc.ok
           /\ { ab \in (0..(Pow6(d) - 1)) \X (0..(Pow6(d) - 1)) :
                  IdOfDigits(ab[1], ab[2], d) = call.hash }
                = { << acc.i, acc.j >> }
  /\ (call.op = "encode" /\ result.ok) =>
       LET acc == DecodeLoop(result.hash, 1, 0, 0) IN
       /\ acc.ok
       /\ IdOfDigits(acc.i, acc.j, Len(result.hash)) = result.hash

\* An ID of two symbols with different digits on the two axes was decoded.
C22_Witness ==
  /\ call.op = "decode" /\ Len(call.hash) = 2 /\ OnlySymbols(call.hash)
  /\ result.ok
  /\ Accumulate(DigitsOf(call.hash, 1)) # Accumulate(DigitsOf(call.hash, 2))

\* The record's bounds start at its origin index and its centroid is the
\* centre of the cell in the middle of the tile.
SelfConsistent(r) ==
  /\ r.bounds.xmin = M(X_MIN_AREA + r.ijOrigin.i0)
  /\ r.bounds.ymin = M(Y_MIN_AREA + r.ijOrigin.j0)
  /\ r.centroid.x = r.bounds.xmin + M(r.tileSize \div 2) + HalfUnit
  /\ r.centroid.y = r.bounds.ymin + M(r.tileSize \div 2) + HalfUnit

\* C23: decode record self-consistency.  For every ID that decodeFromGrid36
\* accepts, the reserved ID included, bounds.xmin = X_MIN_AREA + ijOrigin.i0,
\* bounds.ymin = Y_MIN_AREA + ijOrigin.j0 and centroid = (bounds.xmin +
\* floor(tileSize/2) + 0.5, bounds.ymin + floor(tileSize/2) + 0.5).
C23_RecordSelfConsistent ==
  (call.op = "decode" /\ result.ok) => SelfConsistent(result)

\* The part of C23 that the code keeps: every record computed from the
\* symbols of the ID is self-consistent.
C23_ComputedRecordsConsistent ==
  (call.op = "decode" /\ result.ok /\ call.hash # ReferenceHash) =>
    SelfConsistent(result)

\* The reserved ID was decoded to a record whose bounds do not start at its
\* origin index.
C23_ReservedInconsistent ==
  /\ call.op = "decode" /\ call.hash = ReferenceHash /\ result.ok
  /\ result.bounds.xmin # M(X_MIN_AREA + result.ijOrigin.i0)

\* C24: adjusted IDs are well-formed.  For every valid ID (1..9 symbols of
\* the alphabet) and every newDepth in 1..9, adjustHashDepth returns a
\* string of exactly newDepth symbols of the alphabet, which
\* decodeFromGrid36 accepts.
C24_AdjustedWellFormed ==
  (call.op = "adjust" /\ ValidId(call.hash) /\ DepthInRange(call.depth)) =>
    /\ result.ok
    /\ Len(result.hash) = call.depth
    /\ OnlySymbols(result.hash)
    /\ decodeFromGrid36(result.hash, env).ok

\* A valid ID was extended by re-encoding its centroid.
C24_Witness ==
  /\ call.op = "adjust" /\ ValidId(call.hash) /\ DepthInRange(call.depth)
  /\ Len(call.hash) < call.depth
  /\ env.k # "nan"
  /\ result.ok /\ Len(result.hash) = call.depth
  /\ result.hash[call.depth] # "Z"

\* A valid ID was truncated by two or more symbols.
C24_WitnessTruncated ==
  /\ call.op = "adjust" /\ ValidId(call.hash) /\ DepthInRange(call.depth)
  /\ Len(call.hash) > call.depth + 1
  /\ result.ok /\ Len(result.hash) = call.depth

\* The string that a decode call was given, or that a search passed to the
\* validator.
CheckedString ==
  IF call.op = "search" THEN ToUpperCase(Trim(onChangeText(call.hash)))
                        ELSE call.hash

\* C25: the validator agrees with the decoder.  For every string s,
\* isValidTileId(s) is true exactly when decodeFromGrid36(s) succeeds; so
\* searchTileById never raises for a string that isValidTileId accepted.
C25_ValidatorAgreesWithDecoder ==
  call.op \in { "decode", "search" } =>
    /\ isValidTileId(CheckedString) <=> decodeFromGrid36(CheckedString, env).ok
    /\ isValidTileId(CheckedString) => searchTileById(CheckedString, env).ok

\* The part of C25 that the code keeps: the two agree on every string of
\* at most 9 characters.
C25_AgreeUpToNine ==
  (call.op \in { "decode", "search" } /\ Len(CheckedString) <= 9) =>
    /\ isValidTileId(CheckedString) <=> decodeFromGrid36(CheckedString, env).ok
    /\ isValidTileId(CheckedString) => searchTileById(CheckedString, env).ok

\* A text of ten symbols passed the validator and the search raised.
C25_LongIdAccepted ==
  /\ call.op = "search" /\ Len(CheckedString) = 10
  /\ isValidTileId(CheckedString)
  /\ ~result.ok /\ result.err = "Erro ao buscar tile ID"

\* The level is a depth that the core accepts.
LegalLevel(level) ==
  /\ level \in 1..MAX_DEPTH
  /\ getTileSizeFromLevel(level).ok
  /\ encodeToGrid36([lon |-> Fin(M(X_MIN_AREA)), lat |-> Fin(M(Y_MIN_AREA))],
                    level, Exact).ok

\* C26: the depth used by the screens is always legal.  In every reachable
\* state of useStorage (initially, after loadData, setSelectedLevel and
\* importHistory) selectedLevel is an integer in 1..9, so that
\* getTileSizeFromLevel(selectedLevel) and encodeToGrid36(..., selectedLevel)
\* do not raise the depth error.
C26_LevelAlwaysLegal ==
  \A i \in DOMAIN hooks : LegalLevel(hooks[i].selectedLevel)

\* The level of a new instance is 10, and getTileSizeFromLevel raises for it.
C26_InitialLevelIllegal ==
  \E i \in DOMAIN hooks :
    /\ hooks[i].selectedLevel = INITIAL_LEVEL
    /\ ~getTileSizeFromLevel(hooks[i].selectedLevel).ok

\* An imported level of 42 was set as it is.
C26_ImportedLevelIllegal ==
  \E i \in DOMAIN hooks :
    /\ hooks[i].selectedLevel = 42
    /\ store.level = Item(42)

Ids(list) == { list[k].id : k \in 1..Len(list) }
UniqueIds(list) ==
  \A k \in 1..Len(list), m \in 1..Len(list) : list[k].id = list[m].id => k = m

\* The history list in persistent storage: empty when there is no item.
StoredHistory(st) == IF st.history = NoItem THEN << >> ELSE st.history[1]

\* Instance i completes the write of the operation of the given kind.
Completes(i, kind) == hooks[i].op.kind = kind /\ hooks'[i].op.kind # kind

\* C28: history bound and uniqueness.  After any sequence of saveQuery,
\* deleteQuery, clearHistory and importHistory calls the history list
\* written to persistent storage has at most 100 entries and no two entries
\* with the same id, and after saveQuery(q) the entry q is first in the
\* list.
C28_HistoryBoundedUnique ==
  [][ /\ Len(StoredHistory(store')) <= HISTORY_CAP
      /\ UniqueIds(StoredHistory(store'))
      /\ \A i \in DOMAIN hooks :
           Completes(i, "saveWrite") =>
             /\ StoredHistory(store') # << >>
             /\ StoredHistory(store')[1] = hooks[i].op.arg[1]
    ]_vars

\* The part of C28 that the code keeps: what saveQuery writes has at most
\* 100 entries, the saved query first, and that query's id once.
C28_SaveQueryBounded ==
  [][ \A i \in DOMAIN hooks :
        Completes(i, "saveWrite") =>
          LET q == hooks[i].op.arg[1] IN
          /\ Len(StoredHistory(store')) <= HISTORY_CAP
          /\ StoredHistory(store')[1] = q
          /\ Cardinality({ k \in 1..Len(StoredHistory(store')) :
                             StoredHistory(store')[k].id = q.id }) = 1
    ]_vars

\* An imported list of 101 entries is in persistent storage.
C28_ImportOverCap == Len(StoredHistory(store)) = HISTORY_CAP + 1

\* saveQuery cut a list of 100 entries and the new query to 100 entries.
C28_SaveAtCap ==
  /\ Len(StoredHistory(store)) = HISTORY_CAP
  /\ StoredHistory(store)[1] \in Queries

\* The list that saveQuery(q) makes of the list that storage holds.
SavedInto(list, q) == Slice(<< q >> \o WithoutId(list, q.id), HISTORY_CAP)

\* C29: no lost history update.  With several useStorage instances on one
\* persistent store, in every interleaving of their operations a stored
\* query stays in persistent storage unless it is deleted by its id,
\* cleared, replaced by an import or pushed out by the cap of 100:
\* a completed saveQuery leaves every id that saving into the stored list
\* keeps, and a completed deleteQuery removes the entry of the given id only.
C29_NoLostUpdate ==
  [][ \A i \in DOMAIN hooks :
        /\ Completes(i, "saveWrite") =>
             Ids(SavedInto(StoredHistory(store), hooks[i].op.arg[1]))
               \subseteq Ids(StoredHistory(store'))
        /\ Completes(i, "deleteWrite") =>
             StoredHistory(store')
               = WithoutId(StoredHistory(store), hooks[i].op.arg[1])
    ]_vars

\* A query that one instance saved is gone from persistent storage after
\* another instance deleted a different id.
C29_SavedQueryLost ==
  \E i \in DOMAIN hooks, q \in Queries :
    /\ hooks[i].queryHistory = << q >>
    /\ hooks[i].op.kind = "idle"
    /\ store.history = Item(<< >>)

\* No call of performConversion or handleLevelChange stands at an await, the
\* screen is rendered and the storage hook has loaded.
Settled ==
  /\ calls = { } /\ levelCalls = { }
  /\ Rendered
  /\ ~hooks[1].loading

C27_StaleTile ==
  /\ Settled /\ conversionResult # NoItem /\ currentLocation # NoItem
  /\ conversionResult[1].gps = currentLocation[1]
  /\ conversionResult[1].level = selectedLevel
  /\ conversionResult[1].tileId
       # encodeToGrid36(currentLocation[1].geo, selectedLevel, env).hash

CallIds(set) == { c.id : c \in set }

\* The calls that complete in a step.
Finished == CallIds(calls) \ CallIds(calls')

\* A new call, which holds the highest request id, fails before its first
\* await and completes in the step that starts it.
FailedAtOnce ==
  requestIdRef' > requestIdRef /\ requestIdRef' \notin CallIds(calls')

\* C30: latest conversion wins.  A superseded performConversion call that
\* completes changes none of address, isConverting and isFetchingAddress;
\* an address is displayed and a flag is cleared only by the call with the
\* highest request id; and when that call completes both flags are false.
C30_LatestWins ==
  [][ /\ (\E id \in Finished : id < requestIdRef) =>
           UNCHANGED << address, isConverting, isFetchingAddress >>
      /\ (address' # address /\ address' # NoItem) =>
           requestIdRef \in Finished
      /\ ((isConverting /\ ~isConverting')
            \/ (isFetchingAddress /\ ~isFetchingAddress')) =>
           (requestIdRef \in Finished \/ FailedAtOnce)
      /\ (requestIdRef \in Finished \/ FailedAtOnce) =>
           (~isConverting' /\ ~isFetchingAddress')
    ]_vars

\* Two calls have overlapped: the earlier one has saved its query after the
\* later one, and the later one has completed and displayed its address.
C30_Witness ==
  /\ calls = { } /\ levelCalls = { }
  /\ requestIdRef >= 2
  /\ address # NoItem /\ ~isConverting /\ ~isFetchingAddress
  /\ LET h == StoredHistory(store)
     IN  Len(h) >= 2 /\ h[1].timestamp < h[2].timestamp

====
